---- MODULE Spec2Model ----
(***************************************************************************)
(* Model of the conversation / feedback persistence of the FAQ bot:        *)
(*   cosmos_db.py   AzureCosmosClass, the Conversation Store access        *)
(*   data_layer.py  CustomDataLayer, the Thread/Step Store access and the  *)
(*                  feedback protocols that write to both stores           *)
(*   app.py         get_response / on_message, the text user turn          *)
(*                                                                         *)
(* Every store access and every external call is a suspension point, so    *)
(* each is one atomic step of the handler that issues it; the handler's    *)
(* position is pc.  A store access either succeeds or raises: "http" is a  *)
(* CosmosHttpResponseError, "other" any other exception.                   *)
(***************************************************************************)
EXTENDS Integers, Sequences, FiniteSets, TLC

\* ---------------------------------------------------------------- bounds
\* Identifiers (message ids, step ids) are fresh UUIDs; MaxIds caps how many
\* are generated in one run.
MaxIds == 4
\* Cap on the number of feedback entries kept in one Thread record.
MaxFeedback == 2

\* ------------------------------------------------------------ input sets
\* One conversation: its id is the thread id and the conversation id
ChatIds == {"c1"}
Procs == {"p1", "p2"}
\* msg.content of a user message; "" is an empty message
Queries == {"", "q"}
\* response['messages'][0]['content'] of the serving endpoint
Answers == {"", "a"}
\* Feedback.comment; NoComment is Python's None
NoComment == "<None>"
\* Feedback as the UI sends it: value 0 is thumbs down, 1 thumbs up; the
\* comment is optional
Feedbacks == {[value |-> 0, comment |-> "bad"], [value |-> 1, comment |-> NoComment]}
\* Exceptions a store access can raise besides "not found"
Faults == {"http", "other"}
NoId == 0
\* user_session.get("audio_chunks") before on_audio_start has set it (None)
NoChunks == -1

VARIABLES
    conv,      \* Conversation Store: chat id -> [exists, conversation]
    threads,   \* threads container:  thread id -> [exists, feedback]
    steps,     \* steps container:    set of step records
    nextId,    \* next fresh identifier
    proc,      \* per task: the running handler, its position and its locals
    appended,  \* history: per chat id, the role-tagged messages of the turns
               \* whose append succeeded, in the order of the appends
    lastSubmit, \* history: the message id the last handler that returned
               \* resolved, when that handler was an upsert_feedback no call
               \* of which failed; NoId otherwise
    session,   \* cl.user_session: thread_id and audio_chunks
    files      \* the temporary WAV files that exist, by audio id

vars == <<conv, threads, steps, nextId, proc, appended, lastSubmit, session, files>>

\* ----------------------------------------------------------- cosmos_db.py

\* update_conversation: the Turn appended to the record
NewMessage(message_id, user_message, ai_answer) ==
    [message_id |-> message_id,
     user_message |-> user_message,
     ai_answer |-> ai_answer,
     feedback_vote |-> 0,
     feedback_text |-> ""]

\* Mutation of TurnMessages: the assistant message before the user message
TurnMessages_AssistantFirst(msg) ==
    (IF msg.ai_answer # ""
        THEN <<[role |-> "assistant", content |-> msg.ai_answer]>> ELSE <<>>)
    \o
    (IF msg.user_message # ""
        THEN <<[role |-> "user", content |-> msg.user_message]>> ELSE <<>>)

\* get_chat_history: the role-tagged messages of one Turn
TurnMessages(msg) ==
    (IF msg.user_message # ""
        THEN <<[role |-> "user", content |-> msg.user_message]>> ELSE <<>>)
    \o
    (IF msg.ai_answer # ""
        THEN <<[role |-> "assistant", content |-> msg.ai_answer]>> ELSE <<>>)

\* get_chat_history: the loop over the record's conversation
RECURSIVE ChatHistory(_)
ChatHistory(conversation) ==
    IF conversation = <<>> THEN <<>>
    ELSE TurnMessages(Head(conversation)) \o ChatHistory(Tail(conversation))

\* Mutation of AppendTurn: the new message is put first
AppendTurn_Prepend(conversation, new_message) == <<new_message>> \o conversation

\* update_conversation: prev_item['conversation'].append(new_message)
AppendTurn(conversation, new_message) == Append(conversation, new_message)

\* upsert_feedback / reset_feedback: message_found after the scan
MessageFound(conversation, message_id) ==
    \E i \in 1..Len(conversation) : conversation[i].message_id = message_id

\* upsert_feedback / reset_feedback: index of the Turn the scan stops at
FirstMatch(conversation, message_id) ==
    CHOOSE i \in 1..Len(conversation) :
        /\ conversation[i].message_id = message_id
        /\ \A j \in 1..(i-1) : conversation[j].message_id # message_id

\* Mutation of SetFeedback: the scan does not stop at the first match
SetFeedback_AllMatches(conversation, message_id, feedback_vote, feedback_text) ==
    [i \in DOMAIN conversation |->
        IF conversation[i].message_id = message_id
        THEN [conversation[i] EXCEPT !.feedback_vote = feedback_vote,
                                     !.feedback_text = feedback_text]
        ELSE conversation[i]]

\* Mutation of SetFeedback: an empty text leaves the earlier text in place
SetFeedback_KeepsEarlierText(conversation, message_id, feedback_vote, feedback_text) ==
    [conversation EXCEPT ![FirstMatch(conversation, message_id)] =
        [@ EXCEPT !.feedback_vote = feedback_vote,
                  !.feedback_text = IF feedback_text = "" THEN @ ELSE feedback_text]]

\* upsert_feedback: the scan that sets the vote and text of the first match
SetFeedback(conversation, message_id, feedback_vote, feedback_text) ==
    [conversation EXCEPT ![FirstMatch(conversation, message_id)] =
        [@ EXCEPT !.feedback_vote = feedback_vote,
                  !.feedback_text = feedback_text]]

\* Mutation of ResetFeedback: the vote is zeroed, the text is kept
ResetFeedback_KeepsText(conversation, message_id) ==
    [conversation EXCEPT ![FirstMatch(conversation, message_id)] =
        [@ EXCEPT !.feedback_vote = 0]]

\* reset_feedback: the scan that zeroes the vote and text of the first match
ResetFeedback(conversation, message_id) ==
    [conversation EXCEPT ![FirstMatch(conversation, message_id)] =
        [@ EXCEPT !.feedback_vote = 0, !.feedback_text = ""]]

\* ---------------------------------------------------------- data_layer.py

\* get_step: items[0] if items else None
StepsWithId(step_id) == {s \in steps : s.id = step_id}

\* Mutation of ResolvedId: the parent's id whatever the step's name
ResolvedId_AlwaysParent(step) ==
    IF step.name \in {"on_audio_end", "on_message"} THEN step.parentId ELSE NoId

\* find_user_message: the id the step resolves to
ResolvedId(step) ==
    IF step.name = "on_audio_end" THEN step.id
    ELSE IF step.name = "on_message" THEN step.parentId
    ELSE NoId

\* Mutation of Resolves: the message id is not validated
Resolves_IdUnchecked(step) ==
    /\ step.name \in {"on_audio_end", "on_message"}
    /\ step.threadId # ""

\* find_user_message: TRUE when it returns a message, FALSE when it raises
Resolves(step) ==
    /\ step.name \in {"on_audio_end", "on_message"}
    /\ step.threadId # ""
    /\ ResolvedId(step) # NoId

\* store_feedback: feedback_data
FeedbackData(message_id, value, comment) ==
    [message_id |-> message_id, value |-> value, comment |-> comment]

\* Mutation of AppendFeedback: the thread keeps the new entry only
AppendFeedback_OnlyNew(feedback, feedback_data) == <<feedback_data>>

\* store_feedback: thread['feedback'].append(feedback_data)
AppendFeedback(feedback, feedback_data) == Append(feedback, feedback_data)

\* Mutation of MirrorVote: the value is passed on as it is
MirrorVote_Unchanged(value) == value

\* store_feedback: feedback_vote=-1 if value == 0 else value
MirrorVote(value) == IF value = 0 THEN -1 ELSE value

\* store_feedback: feedback_text=comment if comment else ""
MirrorText(comment) == IF comment = NoComment \/ comment = "" THEN "" ELSE comment

\* Mutation of RemoveFeedback: the first entry of feedback_id is removed, a
\* later one stays
RemoveFeedback_FirstOnly(feedback, feedback_id) ==
    IF \E i \in DOMAIN feedback : feedback[i].message_id = feedback_id
    THEN LET k == CHOOSE i \in DOMAIN feedback :
                    /\ feedback[i].message_id = feedback_id
                    /\ \A j \in 1..(i-1) : feedback[j].message_id # feedback_id
         IN SubSeq(feedback, 1, k-1) \o SubSeq(feedback, k+1, Len(feedback))
    ELSE feedback

\* delete_feedback: [fb for fb in thread['feedback'] if fb['message_id'] != feedback_id]
RemoveFeedback(feedback, feedback_id) ==
    SelectSeq(feedback, LAMBDA fb : fb.message_id # feedback_id)

HasFeedback(feedback, feedback_id) ==
    \E i \in 1..Len(feedback) : feedback[i].message_id = feedback_id

\* delete_feedback: the threads the ARRAY_CONTAINS query returns
ThreadsWithFeedback(feedback_id) ==
    {t \in ChatIds : threads[t].exists /\ HasFeedback(threads[t].feedback, feedback_id)}

\* ------------------------------------------------------------------ tasks

Idle ==
    [op |-> "idle", pc |-> "idle",
     chat |-> "", msg_id |-> NoId, query |-> "",
     item |-> <<>>, hist |-> <<>>, answer |-> "",
     value |-> 0, comment |-> NoComment, thread |-> <<>>,
     step_id |-> NoId, mirror |-> "none",
     outcome |-> "none", ret |-> NoId, found |-> FALSE, reply |-> "",
     answered |-> FALSE, fault_at |-> "",
     sent |-> {}, exc |-> FALSE, todo |-> {},
     conv0 |-> <<>>, threads0 |-> <<>>]

AllIdle == \A p \in Procs : proc[p].op = "idle"

\* The task the framework hands the next event to
FreeTask == CHOOSE p \in Procs : proc[p].op = "idle"

NoRecord == [exists |-> FALSE, conversation |-> <<>>]
NoThread == [exists |-> FALSE, feedback |-> <<>>]

Init ==
    /\ conv = [c \in ChatIds |-> NoRecord]
    /\ threads = [t \in ChatIds |-> NoThread]
    /\ steps = {}
    /\ nextId = 1
    /\ proc = [p \in Procs |-> Idle]
    /\ appended = [c \in ChatIds |-> <<>>]
    /\ lastSubmit = NoId
    /\ session = [thread_id |-> "", audio_chunks |-> NoChunks]
    /\ files = {}

\* A handler starts: its locals, and the stores as it found them
Begin(p, op, pc, locals) ==
    proc' = [proc EXCEPT ![p] =
        [[f \in DOMAIN Idle |->
            IF f \in DOMAIN locals THEN locals[f] ELSE Idle[f]]
         EXCEPT !.op = op, !.pc = pc, !.conv0 = conv, !.threads0 = threads]]

Goto(p, pc, locals) ==
    proc' = [proc EXCEPT ![p] =
        [[f \in DOMAIN Idle |->
            IF f \in DOMAIN locals THEN locals[f] ELSE proc[p][f]]
         EXCEPT !.pc = pc]]

NoLocals == [x \in {} |-> 0]

\* The handlers of a user turn, which call get_response
Turns == {"on_message", "on_audio_end"}

\* injected: the call raised because the store failed, not because of what
\* the store holds; fault_at remembers the call.
FaultAt(p, injected) == IF injected THEN proc[p].pc ELSE proc[p].fault_at

\* ------------------------------------------------- app.py: the text turn

\* A user message arrives: the framework gives it a fresh id and runs
\* on_message inside a step named "on_message" whose parent is the message.
\* on_message: msg_id = msg.id, chat_id = msg.thread_id, get_response(...)
UserMessage(p, chat_id, content) ==
    /\ proc[p].op = "idle"
    /\ nextId + 1 <= MaxIds
    /\ nextId' = nextId + 2
    /\ Begin(p, "on_message", "create_step",
             [chat |-> chat_id, msg_id |-> nextId, query |-> content])
    /\ session' = [session EXCEPT !.thread_id = chat_id]
    /\ UNCHANGED <<conv, threads, steps, appended, lastSubmit, files>>

\* Mutation of CallbackStep: the transcription message's parent is not the
\* on_audio_end step, whose id is another one
CallbackStep_AudioStepApart(p) ==
    IF proc[p].op = "on_message"
    THEN [id |-> proc[p].msg_id + 1, name |-> "on_message",
          threadId |-> proc[p].chat, parentId |-> proc[p].msg_id]
    ELSE [id |-> proc[p].msg_id + 1, name |-> "on_audio_end",
          threadId |-> proc[p].chat, parentId |-> NoId]

\* The step record of the callback: on_message runs in a step whose parent
\* is the user message, on_audio_end in a step of its own
CallbackStep(p) ==
    IF proc[p].op = "on_message"
    THEN [id |-> proc[p].msg_id + 1, name |-> "on_message",
          threadId |-> proc[p].chat, parentId |-> proc[p].msg_id]
    ELSE [id |-> proc[p].msg_id, name |-> "on_audio_end",
          threadId |-> proc[p].chat, parentId |-> NoId]

\* where the callback starts once its step is created
AfterCreateStep(p) ==
    IF proc[p].op = "on_message" THEN "get_data" ELSE "read_chunks"

\* create_step: steps_container.upsert_item(step_dict); a failure is raised
\* to the framework, which carries on with the callback
create_step(p) ==
    /\ proc[p].pc = "create_step"
    /\ \/ /\ steps' = steps \cup {CallbackStep(p)}
          /\ Goto(p, AfterCreateStep(p), NoLocals)
       \/ /\ Goto(p, AfterCreateStep(p), [fault_at |-> FaultAt(p, TRUE)])
          /\ UNCHANGED steps
    /\ UNCHANGED <<conv, threads, nextId, appended, lastSubmit, session, files>>

\* get_chat_history called on its own (the get_context of the Sync Layer)
GetContext(p, chat_id) ==
    /\ proc[p].op = "idle"
    /\ Begin(p, "get_chat_history", "get_data", [chat |-> chat_id])
    /\ UNCHANGED <<conv, threads, steps, nextId, appended, lastSubmit, session, files>>

\* where update_conversation returns to: get_response and then on_message
\* or process_audio, or the caller when it is called on its own
AfterResponse(p) ==
    IF proc[p].op = "on_message" THEN "send"
    ELSE IF proc[p].op = "on_audio_end" THEN "send_answer"
    ELSE "done"

\* How a handler ends when a call raises.  get_response catches every
\* exception and returns the error dict, which on_message answers with the
\* apology; the other handlers log and re-raise to their caller.
Raise(p, injected) ==
    IF proc[p].op \in Turns
    THEN Goto(p, AfterResponse(p),
              [outcome |-> "error", fault_at |-> FaultAt(p, injected)])
    ELSE Goto(p, "done", [outcome |-> "raised", fault_at |-> FaultAt(p, injected)])

\* get_chat_history once the history is known: get_response appends the
\* user's query to it and calls the endpoint
HistoryKnown(p, chat_history) ==
    IF proc[p].op \in Turns
    THEN Goto(p, "call_databricks_endpoint",
              [hist |-> Append(chat_history,
                               [role |-> "user", content |-> proc[p].query])])
    ELSE Goto(p, "done", [hist |-> chat_history, outcome |-> "returned"])

\* get_data: read_item; a CosmosHttpResponseError (not found included) gives
\* False, any other exception is raised.  Then get_chat_history: with a
\* record, the history; without, upload_data.
get_data(p) ==
    /\ proc[p].pc = "get_data"
    /\ LET c == proc[p].chat IN
       \/ /\ conv[c].exists
          /\ HistoryKnown(p, ChatHistory(conv[c].conversation))
       \/ /\ ~conv[c].exists
          /\ Goto(p, "upload_data", NoLocals)
       \/ \E f \in Faults :
             IF f = "http"
             THEN Goto(p, "upload_data", [fault_at |-> FaultAt(p, TRUE)])
             ELSE Raise(p, TRUE)
    /\ UNCHANGED <<conv, threads, steps, nextId, appended, lastSubmit, session, files>>

\* Mutation of upload_data: no record is created, [] is returned all the same
upload_data_NoCreate(p) ==
    /\ proc[p].pc = "upload_data"
    /\ HistoryKnown(p, <<>>)
    /\ UNCHANGED <<conv, threads, steps, nextId, appended, lastSubmit, session, files>>

\* Mutation of upload_data: the empty record is upserted, over a record of
\* the id if there is one
upload_data_Upserts(p) ==
    /\ proc[p].pc = "upload_data"
    /\ LET c == proc[p].chat IN
       \/ /\ conv' = [conv EXCEPT ![c] = [exists |-> TRUE, conversation |-> <<>>]]
          /\ HistoryKnown(p, <<>>)
       \/ /\ Raise(p, TRUE)
          /\ UNCHANGED conv
    /\ UNCHANGED <<threads, steps, nextId, appended, lastSubmit, session, files>>

\* upload_data: create_item of a record with an empty conversation; the store
\* refuses an id that exists.  Then get_chat_history returns [].
upload_data(p) ==
    /\ proc[p].pc = "upload_data"
    /\ LET c == proc[p].chat IN
       \/ /\ ~conv[c].exists
          /\ conv' = [conv EXCEPT ![c] = [exists |-> TRUE, conversation |-> <<>>]]
          /\ HistoryKnown(p, <<>>)
       \/ /\ conv[c].exists
          /\ Raise(p, FALSE)
          /\ UNCHANGED conv
       \/ /\ Raise(p, TRUE)
          /\ UNCHANGED conv
    /\ UNCHANGED <<threads, steps, nextId, appended, lastSubmit, session, files>>

\* What the serving endpoint does: raises, returns a falsy response, returns
\* a response without messages or without custom_outputs["context"], or
\* returns an answer
ModelOutcomes == {"raise", "empty", "malformed"} \cup Answers

\* Mutation of call_databricks_endpoint: a falsy response is recorded as a
\* Turn with an empty answer
call_databricks_endpoint_RecordsEmpty(p) ==
    /\ proc[p].pc = "call_databricks_endpoint"
    /\ \E r \in ModelOutcomes :
          IF r \in Answers
          THEN Goto(p, "update_read", [answer |-> r, answered |-> TRUE])
          ELSE IF r = "empty"
          THEN Goto(p, "update_read", [answer |-> ""])
          ELSE Raise(p, FALSE)
    /\ UNCHANGED <<conv, threads, steps, nextId, appended, lastSubmit, session, files>>

\* get_response: call_databricks_endpoint and the reading of its response
call_databricks_endpoint(p) ==
    /\ proc[p].pc = "call_databricks_endpoint"
    /\ \E r \in ModelOutcomes :
          IF r \in Answers
          THEN Goto(p, "update_read", [answer |-> r, answered |-> TRUE])
          ELSE Raise(p, FALSE)
    /\ UNCHANGED <<conv, threads, steps, nextId, appended, lastSubmit, session, files>>

\* update_conversation: read_item; raises when the record is absent
update_read(p) ==
    /\ proc[p].pc = "update_read"
    /\ LET c == proc[p].chat IN
       \/ /\ conv[c].exists
          /\ Goto(p, "update_replace", [item |-> conv[c].conversation])
       \/ /\ ~conv[c].exists
          /\ Raise(p, FALSE)
       \/ Raise(p, TRUE)
    /\ UNCHANGED <<conv, threads, steps, nextId, appended, lastSubmit, session, files>>

\* Mutation of update_replace: the Turn is appended to the record the store
\* holds at the time of the write
update_replace_Merges(p) ==
    /\ proc[p].pc = "update_replace"
    /\ LET c == proc[p].chat
           new_message == NewMessage(proc[p].msg_id, proc[p].query, proc[p].answer)
       IN
       \/ /\ conv[c].exists
          /\ conv' = [conv EXCEPT ![c].conversation =
                         AppendTurn(conv[c].conversation, new_message)]
          /\ appended' = [appended EXCEPT ![c] =
                (@ \o (IF proc[p].query # ""
                         THEN <<[role |-> "user", content |-> proc[p].query]>>
                         ELSE <<>>))
                   \o (IF proc[p].answer # ""
                         THEN <<[role |-> "assistant", content |-> proc[p].answer]>>
                         ELSE <<>>)]
          /\ Goto(p, AfterResponse(p), [outcome |-> "recorded"])
       \/ /\ Raise(p, TRUE)
          /\ UNCHANGED <<conv, appended, lastSubmit, session, files>>
    /\ UNCHANGED <<threads, steps, nextId, lastSubmit, session, files>>

\* update_conversation: append new_message to the record read, replace_item
\* with the whole record; then get_response returns the answer
update_replace(p) ==
    /\ proc[p].pc = "update_replace"
    /\ LET c == proc[p].chat
           new_message == NewMessage(proc[p].msg_id, proc[p].query, proc[p].answer)
       IN
       \/ /\ conv[c].exists
          /\ conv' = [conv EXCEPT ![c].conversation =
                         AppendTurn(proc[p].item, new_message)]
          /\ appended' = [appended EXCEPT ![c] =
                (@ \o (IF proc[p].query # ""
                         THEN <<[role |-> "user", content |-> proc[p].query]>>
                         ELSE <<>>))
                   \o (IF proc[p].answer # ""
                         THEN <<[role |-> "assistant", content |-> proc[p].answer]>>
                         ELSE <<>>)]
          /\ Goto(p, AfterResponse(p), [outcome |-> "recorded"])
       \/ /\ Raise(p, TRUE)
          /\ UNCHANGED <<conv, appended, lastSubmit, session, files>>
    /\ UNCHANGED <<threads, steps, nextId, lastSubmit, session, files>>

Apology == "I apologize, but I encountered an error. Please try again."

\* on_message: the apology when get_response returned the error dict,
\* the response otherwise
OnMessageReply(outcome, answer) ==
    IF outcome = "error" THEN Apology ELSE answer

send(p) ==
    /\ proc[p].pc = "send"
    /\ Goto(p, "done",
            [reply |-> OnMessageReply(proc[p].outcome, proc[p].answer),
             sent |-> {OnMessageReply(proc[p].outcome, proc[p].answer)}])
    /\ UNCHANGED <<conv, threads, steps, nextId, appended, lastSubmit, session, files>>

\* The handler has returned; the task is free again
Finish(p) ==
    /\ proc[p].pc = "done"
    /\ proc' = [proc EXCEPT ![p] = Idle]
    /\ lastSubmit' =
          IF /\ proc[p].op = "upsert_feedback"
             /\ proc[p].outcome = "returned"
             /\ proc[p].mirror = "ok"
          THEN proc[p].ret ELSE NoId
    /\ UNCHANGED <<conv, threads, steps, nextId, appended, session, files>>

\* ------------------------------------------- data_layer.py: upsert_feedback

\* upsert_feedback(feedback): the user rates the response of a step
SubmitFeedback(p, step_id, value, comment) ==
    /\ proc[p].op = "idle"
    /\ \A s \in StepsWithId(step_id) :
          s.threadId \in ChatIds => Len(threads[s.threadId].feedback) < MaxFeedback
    /\ Begin(p, "upsert_feedback", "get_step",
             [step_id |-> step_id, value |-> value, comment |-> comment])
    /\ UNCHANGED <<conv, threads, steps, nextId, appended, lastSubmit, session, files>>

\* get_step: the query by step id; then find_user_message on the step found
get_step(p) ==
    /\ proc[p].pc = "get_step"
    /\ \/ /\ StepsWithId(proc[p].step_id) = {}
          /\ Raise(p, FALSE)
       \/ \E step \in StepsWithId(proc[p].step_id) :
             IF Resolves(step)
             THEN Goto(p, "store_read",
                       [chat |-> step.threadId, msg_id |-> ResolvedId(step)])
             ELSE Raise(p, FALSE)
       \/ Raise(p, TRUE)
    /\ UNCHANGED <<conv, threads, steps, nextId, appended, lastSubmit, session, files>>

\* store_feedback: threads_container.read_item; "not found" starts a new
\* thread with an empty feedback list, any other exception is raised
store_read(p) ==
    /\ proc[p].pc = "store_read"
    /\ LET t == proc[p].chat IN
       \/ /\ threads[t].exists
          /\ Goto(p, "store_upsert", [thread |-> threads[t].feedback])
       \/ /\ ~threads[t].exists
          /\ Goto(p, "store_upsert", [thread |-> <<>>])
       \/ Raise(p, TRUE)
    /\ UNCHANGED <<conv, threads, steps, nextId, appended, lastSubmit, session, files>>

\* Mutation of store_upsert: the mirror write is issued without the thread
\* having been written
store_upsert_Skipped(p) ==
    /\ proc[p].pc = "store_upsert"
    /\ Goto(p, "mirror_read", NoLocals)
    /\ UNCHANGED <<conv, threads, steps, nextId, appended, lastSubmit, session, files>>

\* Mutation of store_upsert: a failed upsert_item is logged and the handler
\* carries on with the mirror write
store_upsert_BestEffort(p) ==
    /\ proc[p].pc = "store_upsert"
    /\ LET t == proc[p].chat
           feedback_data == [message_id |-> proc[p].msg_id,
                             value |-> proc[p].value,
                             comment |-> proc[p].comment]
       IN
       \/ /\ threads' = [threads EXCEPT ![t] =
                [exists |-> TRUE,
                 feedback |-> Append(proc[p].thread, feedback_data)]]
          /\ Goto(p, "mirror_read", NoLocals)
       \/ /\ Goto(p, "mirror_read", [fault_at |-> FaultAt(p, TRUE)])
          /\ UNCHANGED threads
    /\ UNCHANGED <<conv, steps, nextId, appended, lastSubmit, session, files>>

\* store_feedback: append feedback_data to the thread read, upsert_item
store_upsert(p) ==
    /\ proc[p].pc = "store_upsert"
    /\ LET t == proc[p].chat
           feedback_data == FeedbackData(proc[p].msg_id, proc[p].value, proc[p].comment)
       IN
       \/ /\ threads' = [threads EXCEPT ![t] =
                [exists |-> TRUE,
                 feedback |-> AppendFeedback(proc[p].thread, feedback_data)]]
          /\ Goto(p, "mirror_read", NoLocals)
       \/ /\ Raise(p, TRUE)
          /\ UNCHANGED threads
    /\ UNCHANGED <<conv, steps, nextId, appended, lastSubmit, session, files>>

\* Mutation of MirrorFailed: the exception of the mirror write is re-raised
MirrorFailed_Raised(p, injected) ==
    Goto(p, "done", [outcome |-> "raised", mirror |-> "failed",
                     fault_at |-> FaultAt(p, injected)])

\* store_feedback: an exception of conversations_cosmos.upsert_feedback is
\* logged and execution continues; upsert_feedback returns user_message['id']
MirrorFailed(p, injected) ==
    Goto(p, "done", [outcome |-> "returned", ret |-> proc[p].msg_id,
                     mirror |-> "failed", fault_at |-> FaultAt(p, injected)])

\* Mutation of mirror_read: a Turn is created for a message_id the scan
\* does not find
mirror_read_CreatesTurn(p) ==
    /\ proc[p].pc = "mirror_read"
    /\ LET c == proc[p].chat
           conversation == conv[c].conversation
       IN
       \/ /\ conv[c].exists
          /\ IF MessageFound(conversation, proc[p].msg_id)
             THEN Goto(p, "mirror_replace",
                       [item |-> SetFeedback(conversation, proc[p].msg_id,
                                             MirrorVote(proc[p].value),
                                             MirrorText(proc[p].comment))])
             ELSE Goto(p, "mirror_replace",
                       [item |-> Append(conversation,
                                        [NewMessage(proc[p].msg_id, "", "")
                                            EXCEPT !.feedback_vote = MirrorVote(proc[p].value),
                                                   !.feedback_text = MirrorText(proc[p].comment)])])
       \/ /\ ~conv[c].exists
          /\ MirrorFailed(p, FALSE)
       \/ MirrorFailed(p, TRUE)
    /\ UNCHANGED <<conv, threads, steps, nextId, appended, lastSubmit, session, files>>

\* AzureCosmosClass.upsert_feedback: read_item, then the scan for message_id
mirror_read(p) ==
    /\ proc[p].pc = "mirror_read"
    /\ LET c == proc[p].chat
           conversation == conv[c].conversation
       IN
       \/ /\ conv[c].exists
          /\ IF MessageFound(conversation, proc[p].msg_id)
             THEN Goto(p, "mirror_replace",
                       [item |-> SetFeedback(conversation, proc[p].msg_id,
                                             MirrorVote(proc[p].value),
                                             MirrorText(proc[p].comment))])
             ELSE MirrorFailed(p, FALSE)
       \/ /\ ~conv[c].exists
          /\ MirrorFailed(p, FALSE)
       \/ MirrorFailed(p, TRUE)
    /\ UNCHANGED <<conv, threads, steps, nextId, appended, lastSubmit, session, files>>

\* AzureCosmosClass.upsert_feedback: replace_item with the whole record
mirror_replace(p) ==
    /\ proc[p].pc = "mirror_replace"
    /\ LET c == proc[p].chat IN
       \/ /\ conv[c].exists
          /\ conv' = [conv EXCEPT ![c].conversation = proc[p].item]
          /\ Goto(p, "done", [outcome |-> "returned", ret |-> proc[p].msg_id,
                              mirror |-> "ok"])
       \/ /\ MirrorFailed(p, TRUE)
          /\ UNCHANGED conv
    /\ UNCHANGED <<threads, steps, nextId, appended, lastSubmit, session, files>>

\* ------------------------------------------- data_layer.py: delete_feedback

\* delete_feedback(feedback_id): the user retracts the feedback of a message
RetractFeedback(p, feedback_id) ==
    /\ proc[p].op = "idle"
    /\ Begin(p, "delete_feedback", "delete_query", [msg_id |-> feedback_id])
    /\ UNCHANGED <<conv, threads, steps, nextId, appended, lastSubmit, session, files>>

\* Mutation of delete_query: without a match the thread of the id is
\* filtered and written back all the same
delete_query_AlwaysWrites(p) ==
    /\ proc[p].pc = "delete_query"
    /\ \/ \E t \in ChatIds :
             Goto(p, "delete_upsert",
                  [chat |-> t,
                   thread |-> SelectSeq(threads[t].feedback,
                                 LAMBDA fb : fb.message_id # proc[p].msg_id)])
       \/ Raise(p, TRUE)
    /\ UNCHANGED <<conv, threads, steps, nextId, appended, lastSubmit, session, files>>

\* delete_feedback: the query for threads holding an entry of feedback_id;
\* thread = items[0], with the entries of feedback_id filtered out
delete_query(p) ==
    /\ proc[p].pc = "delete_query"
    /\ \/ /\ ThreadsWithFeedback(proc[p].msg_id) = {}
          /\ Goto(p, "done", [outcome |-> "returned", found |-> FALSE])
       \/ \E t \in ThreadsWithFeedback(proc[p].msg_id) :
             Goto(p, "delete_upsert",
                  [chat |-> t,
                   thread |-> RemoveFeedback(threads[t].feedback, proc[p].msg_id)])
       \/ Raise(p, TRUE)
    /\ UNCHANGED <<conv, threads, steps, nextId, appended, lastSubmit, session, files>>

\* Mutation of delete_upsert: the thread is written and delete_feedback
\* returns True without the reset of the Conversation Store
delete_upsert_NoReset(p) ==
    /\ proc[p].pc = "delete_upsert"
    /\ LET t == proc[p].chat IN
       \/ /\ threads' = [threads EXCEPT ![t] =
                [exists |-> TRUE, feedback |-> proc[p].thread]]
          /\ Goto(p, "done", [outcome |-> "returned", found |-> TRUE])
       \/ /\ Raise(p, TRUE)
          /\ UNCHANGED threads
    /\ UNCHANGED <<conv, steps, nextId, appended, lastSubmit, session, files>>

\* delete_feedback: threads_container.upsert_item(thread)
delete_upsert(p) ==
    /\ proc[p].pc = "delete_upsert"
    /\ LET t == proc[p].chat IN
       \/ /\ threads' = [threads EXCEPT ![t] =
                [exists |-> TRUE, feedback |-> proc[p].thread]]
          /\ Goto(p, "reset_read", NoLocals)
       \/ /\ Raise(p, TRUE)
          /\ UNCHANGED threads
    /\ UNCHANGED <<conv, steps, nextId, appended, lastSubmit, session, files>>

\* Mutation of ResetFailed: the exception of the reset is re-raised
ResetFailed_Raised(p, injected) ==
    Goto(p, "done", [outcome |-> "raised", mirror |-> "failed",
                     fault_at |-> FaultAt(p, injected)])

\* delete_feedback: an exception of conversations_cosmos.reset_feedback is
\* printed and delete_feedback returns True
ResetFailed(p, injected) ==
    Goto(p, "done", [outcome |-> "returned", found |-> TRUE,
                     mirror |-> "failed", fault_at |-> FaultAt(p, injected)])

\* AzureCosmosClass.reset_feedback: read_item, then the scan for message_id
reset_read(p) ==
    /\ proc[p].pc = "reset_read"
    /\ LET c == proc[p].chat
           conversation == conv[c].conversation
       IN
       \/ /\ conv[c].exists
          /\ IF MessageFound(conversation, proc[p].msg_id)
             THEN Goto(p, "reset_replace",
                       [item |-> ResetFeedback(conversation, proc[p].msg_id)])
             ELSE ResetFailed(p, FALSE)
       \/ /\ ~conv[c].exists
          /\ ResetFailed(p, FALSE)
       \/ ResetFailed(p, TRUE)
    /\ UNCHANGED <<conv, threads, steps, nextId, appended, lastSubmit, session, files>>

\* AzureCosmosClass.reset_feedback: replace_item with the whole record
reset_replace(p) ==
    /\ proc[p].pc = "reset_replace"
    /\ LET c == proc[p].chat IN
       \/ /\ conv[c].exists
          /\ conv' = [conv EXCEPT ![c].conversation = proc[p].item]
          /\ Goto(p, "done", [outcome |-> "returned", found |-> TRUE,
                              mirror |-> "ok"])
       \/ /\ ResetFailed(p, TRUE)
          /\ UNCHANGED conv
    /\ UNCHANGED <<threads, steps, nextId, appended, lastSubmit, session, files>>

\* ---------------------------------------------------------- specification

\* One event is handled at a time: a handler starts when no other runs
Next ==
    \E p \in Procs :
        \/ AllIdle /\ p = FreeTask /\ \E c \in ChatIds, q \in Queries : UserMessage(p, c, q)
        \/ AllIdle /\ p = FreeTask /\ \E c \in ChatIds : GetContext(p, c)
        \/ AllIdle /\ p = FreeTask /\ \E s \in 1..MaxIds, fb \in Feedbacks :
                         SubmitFeedback(p, s, fb.value, fb.comment)
        \/ AllIdle /\ p = FreeTask /\ \E m \in 1..MaxIds : RetractFeedback(p, m)
        \/ create_step(p)
        \/ get_data(p)
        \/ upload_data(p)
        \/ call_databricks_endpoint(p)
        \/ update_read(p)
        \/ update_replace(p)
        \/ send(p)
        \/ get_step(p)
        \/ store_read(p)
        \/ store_upsert(p)
        \/ mirror_read(p)
        \/ mirror_replace(p)
        \/ delete_query(p)
        \/ delete_upsert(p)
        \/ reset_read(p)
        \/ reset_replace(p)
        \/ Finish(p)

Spec == Init /\ [][Next]_vars

TypeOK ==
    /\ nextId \in 1..(MaxIds + 1)
    /\ \A c \in ChatIds : conv[c].exists \in BOOLEAN

\* ----------------------------------------------------------------- claims

Done(p, op) == proc[p].op = op /\ proc[p].pc = "done"

\* the feedback pair of the Turn a scan for message_id finds
FeedbackOf(conversation, message_id) ==
    LET turn == conversation[FirstMatch(conversation, message_id)]
    IN <<turn.feedback_vote, turn.feedback_text>>

LastEntry(feedback) == feedback[Len(feedback)]

\* C1: when upsert_feedback has written the feedback entry to the thread and
\* the write of vote and text to the Conversation Store then fails (store
\* error, no conversation record, or no Turn of that id), upsert_feedback
\* still returns the message id its step resolves to, the thread holds the
\* new entry, and the Conversation Store is as it was.
C1_MirrorFailureIsSwallowed ==
    \A p \in Procs :
        (Done(p, "upsert_feedback") /\ proc[p].mirror = "failed") =>
            /\ proc[p].outcome = "returned"
            /\ proc[p].ret # NoId
            /\ \E s \in steps :
                  /\ s.id = proc[p].step_id
                  /\ proc[p].ret = (IF s.name = "on_message" THEN s.parentId ELSE s.id)
            /\ threads[proc[p].chat].exists
            /\ threads[proc[p].chat].feedback =
                  Append(proc[p].threads0[proc[p].chat].feedback,
                         [message_id |-> proc[p].ret,
                          value |-> proc[p].value,
                          comment |-> proc[p].comment])
            /\ conv = proc[p].conv0

\* C1 witness: the Turn is recorded and the replace_item of the mirror write
\* raised
C1_Witness ==
    \E p \in Procs :
        /\ Done(p, "upsert_feedback")
        /\ proc[p].mirror = "failed"
        /\ proc[p].fault_at = "mirror_replace"
        /\ MessageFound(conv[proc[p].chat].conversation, proc[p].msg_id)

\* C2: while an upsert_feedback runs, the Conversation Store differs from
\* what the handler found only if the thread already ends with the
\* handler's feedback entry: the thread write comes first.
C2_ThreadWrittenBeforeMirror ==
    \A p \in Procs :
        (proc[p].op = "upsert_feedback" /\ conv # proc[p].conv0) =>
            /\ threads[proc[p].chat].exists
            /\ threads[proc[p].chat].feedback # <<>>
            /\ LastEntry(threads[proc[p].chat].feedback) =
                  [message_id |-> proc[p].msg_id,
                   value |-> proc[p].value,
                   comment |-> proc[p].comment]

\* C2 witness: the mirror write has set a vote on the Turn
C2_Witness ==
    \E p \in Procs :
        /\ proc[p].op = "upsert_feedback"
        /\ conv # proc[p].conv0
        /\ proc[p].mirror = "ok"

PrimaryCalls == {"get_step", "store_read", "store_upsert",
                 "delete_query", "delete_upsert"}

\* C3: when a read or write of the Thread/Step Store raises during
\* upsert_feedback or delete_feedback, the handler raises to its caller and
\* the Conversation Store is as the handler found it.
C3_PrimaryFailureRaises ==
    \A p \in Procs :
        (/\ proc[p].op \in {"upsert_feedback", "delete_feedback"}
         /\ proc[p].pc = "done"
         /\ proc[p].fault_at \in PrimaryCalls) =>
            /\ proc[p].outcome = "raised"
            /\ proc[p].mirror = "none"
            /\ conv = proc[p].conv0

\* C3 witness: the upsert_item of the thread raised although the Turn the
\* feedback is for is recorded
C3_Witness ==
    \E p \in Procs :
        /\ Done(p, "upsert_feedback")
        /\ proc[p].fault_at = "store_upsert"
        /\ MessageFound(conv[proc[p].chat].conversation, proc[p].msg_id)

\* C4: when the mirror write of upsert_feedback succeeds, the Turn has
\* feedback_vote -1 for value 0 and the value itself otherwise, and
\* feedback_text the comment, "" when there is none; the thread's entry
\* keeps the value as given.
C4_VoteEncoding ==
    \A p \in Procs :
        (Done(p, "upsert_feedback") /\ proc[p].mirror = "ok") =>
            /\ FeedbackOf(conv[proc[p].chat].conversation, proc[p].msg_id) =
                  <<IF proc[p].value = 0 THEN -1 ELSE proc[p].value,
                    IF proc[p].comment = NoComment THEN "" ELSE proc[p].comment>>
            /\ LastEntry(threads[proc[p].chat].feedback).value = proc[p].value
            /\ LastEntry(threads[proc[p].chat].feedback).message_id = proc[p].msg_id

\* C4 witness: a thumbs down (value 0) was mirrored
C4_Witness ==
    \E p \in Procs :
        /\ Done(p, "upsert_feedback")
        /\ proc[p].mirror = "ok"
        /\ proc[p].value = 0

\* C5: a delete_feedback(m) that runs right after an upsert_feedback for the
\* recorded Turn m, no call of either failing, returns True and leaves the
\* Turn with vote 0 and text "" and the thread without an entry of m.
C5_SubmitThenRetract ==
    \A p \in Procs :
        (/\ Done(p, "delete_feedback")
         /\ lastSubmit = proc[p].msg_id
         /\ proc[p].fault_at = "") =>
            /\ proc[p].outcome = "returned"
            /\ proc[p].found
            /\ FeedbackOf(conv[proc[p].chat].conversation, proc[p].msg_id) = <<0, "">>
            /\ \A t \in ChatIds : ~HasFeedback(threads[t].feedback, proc[p].msg_id)

\* C5 witness: the retracted feedback was a vote with a comment
C5_Witness ==
    \E p \in Procs :
        /\ Done(p, "delete_feedback")
        /\ lastSubmit = proc[p].msg_id
        /\ proc[p].fault_at = ""
        /\ FeedbackOf(proc[p].conv0[proc[p].chat].conversation, proc[p].msg_id)
              = <<-1, "bad">>

NoEntryAtStart(p) ==
    \A t \in ChatIds : ~HasFeedback(proc[p].threads0[t].feedback, proc[p].msg_id)

\* C6: a delete_feedback(m) that finds no thread with an entry of m writes to
\* neither store, and when its query does not raise it returns False.
C6_RetractWithoutEntry ==
    \A p \in Procs :
        (proc[p].op = "delete_feedback" /\ NoEntryAtStart(p)) =>
            /\ conv = proc[p].conv0
            /\ threads = proc[p].threads0
            /\ (proc[p].pc = "done" /\ proc[p].fault_at = "") =>
                  (proc[p].outcome = "returned" /\ ~proc[p].found)

\* C6 witness: the handler returned False where no thread record exists
C6_Witness ==
    \E p \in Procs :
        /\ Done(p, "delete_feedback")
        /\ NoEntryAtStart(p)
        /\ proc[p].fault_at = ""
        /\ \E t \in ChatIds : ~threads[t].exists

\* C7: when delete_feedback has removed the entries of m from the thread and
\* the reset in the Conversation Store then fails, delete_feedback still
\* returns True, the thread stays without an entry of m and the Conversation
\* Store is as it was.
C7_ResetFailureIsSwallowed ==
    \A p \in Procs :
        (Done(p, "delete_feedback") /\ proc[p].mirror = "failed") =>
            /\ proc[p].outcome = "returned"
            /\ proc[p].found
            /\ HasFeedback(proc[p].threads0[proc[p].chat].feedback, proc[p].msg_id)
            /\ ~HasFeedback(threads[proc[p].chat].feedback, proc[p].msg_id)
            /\ conv = proc[p].conv0

\* C7 witness: the Turn carries a vote and the replace_item of the reset
\* raised
C7_Witness ==
    \E p \in Procs :
        /\ Done(p, "delete_feedback")
        /\ proc[p].mirror = "failed"
        /\ proc[p].fault_at = "reset_replace"
        /\ FeedbackOf(conv[proc[p].chat].conversation, proc[p].msg_id)[1] # 0

\* C8: get_chat_history returns the role-tagged messages of the appended
\* turns in the order of the appends, the user message of a turn right
\* before its assistant message, nothing for an empty side.
C8_HistoryInAppendOrder ==
    \A p \in Procs :
        (Done(p, "get_chat_history") /\ proc[p].outcome = "returned") =>
            proc[p].hist = appended[proc[p].chat]

\* C8 witness: two turns were appended, one with both sides and one with an
\* empty side
C8_Witness ==
    \E p \in Procs :
        /\ Done(p, "get_chat_history")
        /\ proc[p].outcome = "returned"
        /\ Len(conv[proc[p].chat].conversation) = 2
        /\ Len(proc[p].hist) = 3

EmptyRecord == [exists |-> TRUE, conversation |-> <<>>]

\* C9: get_chat_history for an id without a record returns [] and leaves a
\* record with an empty conversation; called on that record again, it
\* returns [] again and leaves the record as it is (no store call failing).
C9_ContextOfNewConversation ==
    \A p \in Procs :
        (/\ Done(p, "get_chat_history")
         /\ proc[p].fault_at = ""
         /\ proc[p].conv0[proc[p].chat] \in {NoRecord, EmptyRecord}) =>
            /\ proc[p].outcome = "returned"
            /\ proc[p].hist = <<>>
            /\ conv[proc[p].chat] = EmptyRecord
            /\ \A c \in ChatIds \ {proc[p].chat} : conv[c] = proc[p].conv0[c]

\* C9 witness: the call was a repeated one, on the record an earlier call
\* created
C9_Witness ==
    \E p \in Procs :
        /\ Done(p, "get_chat_history")
        /\ proc[p].fault_at = ""
        /\ proc[p].conv0[proc[p].chat] = EmptyRecord
        /\ appended[proc[p].chat] = <<>>

\* C10: when the endpoint has answered and the append of the Turn to the
\* Conversation Store then fails, on_message still sends the answer to the
\* user.
C10_AnswerDeliveredDespiteAppendFailure ==
    \A p \in Procs :
        (/\ Done(p, "on_message")
         /\ proc[p].answered
         /\ proc[p].outcome = "error") =>
            proc[p].reply = proc[p].answer

\* ------------------------------------------------ app.py: the voice turn

\* Cap on the audio chunks kept in the session
MaxChunks == 1

\* on_audio_start: cl.user_session.set("audio_chunks", [])
on_audio_start ==
    /\ session' = [session EXCEPT !.audio_chunks = 0]
    /\ UNCHANGED <<conv, threads, steps, nextId, proc, appended, lastSubmit, files>>

\* on_audio_chunk: audio_chunks.append(audio_chunk); without the list the
\* error is logged and the chunk dropped
on_audio_chunk ==
    /\ session.audio_chunks # NoChunks
    /\ session.audio_chunks < MaxChunks
    /\ session' = [session EXCEPT !.audio_chunks = @ + 1]
    /\ UNCHANGED <<conv, threads, steps, nextId, proc, appended, lastSubmit, files>>

\* The recording stops: the framework runs on_audio_end inside a fresh step
\* named "on_audio_end"; a message created in the callback has that step as
\* its parent, so process_audio records the Turn under the step's id.
\* process_audio draws a second fresh id, audio_id, for its file.
on_audio_end(p, chat_id) ==
    /\ proc[p].op = "idle"
    /\ nextId + 1 <= MaxIds
    /\ nextId' = nextId + 2
    /\ Begin(p, "on_audio_end", "create_step", [chat |-> chat_id, msg_id |-> nextId])
    /\ UNCHANGED <<conv, threads, steps, appended, lastSubmit, session, files>>

NoAudioMessage == "No audio recorded. Please try again."
AudioApology == "Sorry, I encountered an error processing the audio. Please try again."
CouldNotUnderstand == "I couldn't understand the audio. Please try again."

\* get_response's error dict, the content process_audio sends when
\* get_response caught an exception; "details" is str(e)
ErrorDict == "{error: Sorry, something went wrong. Please try again later., details: str(e)}"

\* process_audio: the content of the message sent after get_response
ProcessAudioReply(outcome, answer) ==
    IF outcome = "error" THEN ErrorDict ELSE answer

\* process_audio: audio_file_path, by its audio_id
AudioFile(p) == proc[p].msg_id + 1

\* process_audio: without chunks, the "No audio recorded" message and return
read_chunks(p) ==
    /\ proc[p].pc = "read_chunks"
    /\ IF session.audio_chunks = NoChunks \/ session.audio_chunks = 0
       THEN \/ Goto(p, "done", [outcome |-> "no_audio", reply |-> NoAudioMessage,
                                sent |-> {NoAudioMessage}])
            \/ Goto(p, "apologize", [exc |-> TRUE])
       ELSE Goto(p, "write_wav", NoLocals)
    /\ UNCHANGED <<conv, threads, steps, nextId, appended, lastSubmit, session, files>>

\* process_audio: the chunks written to the temporary WAV file, then the
\* session's chunks cleared; a failure may leave the file behind
write_wav(p) ==
    /\ proc[p].pc = "write_wav"
    /\ \/ /\ files' = files \cup {AudioFile(p)}
          /\ session' = [session EXCEPT !.audio_chunks = 0]
          /\ Goto(p, "speech_to_text", NoLocals)
       \/ /\ files' \in {files, files \cup {AudioFile(p)}}
          /\ Goto(p, "cleanup", [exc |-> TRUE])
          /\ UNCHANGED session
    /\ UNCHANGED <<conv, threads, steps, nextId, appended, lastSubmit>>

\* recognize_from_file returns the recognised text, which may be empty, or
\* the text of its own error: it raises nothing
RecognizerResults ==
    {"q", "", "No speech could be recognized.", "Error: Network error"}

\* speech_to_text: the transcription, the "I couldn't understand" text when
\* there is none
Transcription(result) == IF result = "" THEN CouldNotUnderstand ELSE result

\* process_audio: not transcription or transcription.startswith("I couldn't understand")
RecognitionFailed(transcription) ==
    transcription = "" \/ transcription = CouldNotUnderstand

\* process_audio: speech_to_text and the test of its result
speech_to_text(p) ==
    /\ proc[p].pc = "speech_to_text"
    /\ \E result \in RecognizerResults :
          IF RecognitionFailed(Transcription(result))
          THEN Goto(p, "cleanup", [exc |-> TRUE])
          ELSE Goto(p, "send_transcription", [query |-> Transcription(result)])
    /\ UNCHANGED <<conv, threads, steps, nextId, appended, lastSubmit, session, files>>

\* process_audio: message_transcription.send(), then get_response
send_transcription(p) ==
    /\ proc[p].pc = "send_transcription"
    /\ \/ Goto(p, "get_data", [sent |-> proc[p].sent \cup {proc[p].query}])
       \/ Goto(p, "cleanup", [exc |-> TRUE])
    /\ UNCHANGED <<conv, threads, steps, nextId, appended, lastSubmit, session, files>>

\* process_audio: the session's thread_id set, then cl.Message(content=answer).send()
send_answer(p) ==
    /\ proc[p].pc = "send_answer"
    /\ session' = [session EXCEPT !.thread_id = proc[p].chat]
    /\ LET content == ProcessAudioReply(proc[p].outcome, proc[p].answer) IN
       \/ Goto(p, "cleanup", [reply |-> content, sent |-> proc[p].sent \cup {content}])
       \/ Goto(p, "cleanup", [exc |-> TRUE])
    /\ UNCHANGED <<conv, threads, steps, nextId, appended, lastSubmit, files>>

\* Mutation of cleanup: the file is removed at the end of the try block, not
\* in a finally, so not after an exception
cleanup_NotFinally(p) ==
    /\ proc[p].pc = "cleanup"
    /\ \/ /\ files' = IF proc[p].exc THEN files ELSE files \ {AudioFile(p)}
          /\ Goto(p, IF proc[p].exc THEN "apologize" ELSE "done", NoLocals)
       \/ /\ AudioFile(p) \in files
          /\ Goto(p, "apologize", [exc |-> TRUE, fault_at |-> FaultAt(p, TRUE)])
          /\ UNCHANGED files
    /\ UNCHANGED <<conv, threads, steps, nextId, appended, lastSubmit, session>>

\* process_audio's finally: delete_audio_file when the file exists; an
\* OSError of os.remove is raised.  Then the outer except, if anything raised
cleanup(p) ==
    /\ proc[p].pc = "cleanup"
    /\ \/ /\ files' = files \ {AudioFile(p)}
          /\ Goto(p, IF proc[p].exc THEN "apologize" ELSE "done", NoLocals)
       \/ /\ AudioFile(p) \in files
          /\ Goto(p, "apologize", [exc |-> TRUE, fault_at |-> FaultAt(p, TRUE)])
          /\ UNCHANGED files
    /\ UNCHANGED <<conv, threads, steps, nextId, appended, lastSubmit, session>>

\* process_audio's except: the apology; if that send raises too, on_audio_end
\* logs it
apologize(p) ==
    /\ proc[p].pc = "apologize"
    /\ \/ Goto(p, "done", [reply |-> AudioApology,
                           sent |-> proc[p].sent \cup {AudioApology}])
       \/ Goto(p, "done", NoLocals)
    /\ UNCHANGED <<conv, threads, steps, nextId, appended, lastSubmit, session, files>>

\* The user turns, text and voice, one at a time
NextTurns ==
    \/ AllIdle /\ on_audio_start
    \/ AllIdle /\ on_audio_chunk
    \/ \E p \in Procs :
        \/ AllIdle /\ p = FreeTask /\ \E c \in ChatIds, q \in Queries : UserMessage(p, c, q)
        \/ AllIdle /\ p = FreeTask /\ \E c \in ChatIds : on_audio_end(p, c)
        \/ create_step(p)
        \/ read_chunks(p)
        \/ write_wav(p)
        \/ speech_to_text(p)
        \/ send_transcription(p)
        \/ get_data(p)
        \/ upload_data(p)
        \/ call_databricks_endpoint(p)
        \/ update_read(p)
        \/ update_replace(p)
        \/ send(p)
        \/ send_answer(p)
        \/ cleanup(p)
        \/ apologize(p)
        \/ Finish(p)

SpecTurns == Init /\ [][NextTurns]_vars

GenericMessages == {Apology, AudioApology, NoAudioMessage}

\* C11: when a user turn fails, text or voice, what is sent to the user after
\* the failure is a generic apology: nothing sent carries the text of the
\* exception.
C11_NoErrorDetailSent ==
    \A p \in Procs :
        (/\ proc[p].op \in Turns
         /\ proc[p].pc = "done"
         /\ (proc[p].outcome = "error" \/ proc[p].exc)) =>
            /\ ErrorDict \notin proc[p].sent
            /\ proc[p].outcome = "error" => proc[p].reply \in GenericMessages \cup {""}

\* ------------------------------------- data_layer.py: steps of any kind

\* Cap on the step records created outside a user turn
MaxSteps == 2

\* step_dict.get('name'): the two callbacks' names, and the name of the step
\* get_response runs in
StepNames == {"on_message", "on_audio_end", "Answer generator..."}

\* create_step with a step_dict of the framework's making: a fresh id, any
\* name, with or without a thread id and a parent
StepCreated(name, threadId, parentId) ==
    /\ AllIdle
    /\ nextId <= MaxIds
    /\ Cardinality(steps) < MaxSteps
    /\ nextId' = nextId + 1
    /\ steps' = steps \cup {[id |-> nextId, name |-> name,
                             threadId |-> threadId, parentId |-> parentId]}
    /\ UNCHANGED <<conv, threads, proc, appended, lastSubmit, session, files>>

\* Feedback on steps of any kind, before any turn is recorded
NextSteps ==
    \/ \E name \in StepNames, t \in ChatIds \cup {""}, parent \in {NoId, nextId - 1} :
          StepCreated(name, t, parent)
    \/ \E p \in Procs :
        \/ AllIdle /\ p = FreeTask /\ \E s \in 1..MaxIds, fb \in Feedbacks :
                         SubmitFeedback(p, s, fb.value, fb.comment)
        \/ get_step(p)
        \/ store_read(p)
        \/ store_upsert(p)
        \/ mirror_read(p)
        \/ Finish(p)

SpecSteps == Init /\ [][NextSteps]_vars

\* C12: upsert_feedback resolves a step named on_audio_end to the step's own
\* id and a step named on_message to the step's parentId, and returns that
\* id when the step has it and a thread id and no store call raises; for a
\* step of any other name it raises.
C12_StepResolution ==
    \A p \in Procs :
        Done(p, "upsert_feedback") =>
            \A s \in steps :
                s.id = proc[p].step_id =>
                    /\ (s.name = "on_audio_end" /\ s.threadId # "") =>
                          /\ proc[p].outcome = "returned" => proc[p].ret = s.id
                          /\ proc[p].fault_at = "" => proc[p].outcome = "returned"
                    /\ (s.name = "on_message" /\ s.threadId # "" /\ s.parentId # NoId) =>
                          /\ proc[p].outcome = "returned" => proc[p].ret = s.parentId
                          /\ proc[p].fault_at = "" => proc[p].outcome = "returned"
                    /\ s.name \notin {"on_audio_end", "on_message"} =>
                          /\ proc[p].outcome = "raised"
                          /\ proc[p].ret = NoId

\* C12 witness: a voice step that has a parent resolved to its own id
C12_Witness ==
    \E p \in Procs :
        /\ Done(p, "upsert_feedback")
        /\ proc[p].outcome = "returned"
        /\ \E s \in steps :
              /\ s.id = proc[p].step_id
              /\ s.name = "on_audio_end"
              /\ s.parentId # NoId
              /\ proc[p].ret = s.id

\* the step of step_id is missing, or it does not resolve to a message
Unresolvable(step_id) ==
    \A s \in steps :
        s.id = step_id =>
            \/ s.name \notin {"on_audio_end", "on_message"}
            \/ s.threadId = ""
            \/ (s.name = "on_audio_end" /\ s.id = NoId)
            \/ (s.name = "on_message" /\ s.parentId = NoId)

\* C13: an upsert_feedback whose step is missing or does not resolve to a
\* message (unknown name, no thread id, no message id) writes to neither
\* store and raises.
C13_UnresolvedWritesNothing ==
    \A p \in Procs :
        (proc[p].op = "upsert_feedback" /\ Unresolvable(proc[p].step_id)) =>
            /\ threads = proc[p].threads0
            /\ conv = proc[p].conv0
            /\ proc[p].pc = "done" => (proc[p].outcome = "raised" /\ proc[p].ret = NoId)

\* C13 witness: the step exists and is an on_message step without a parent
C13_Witness ==
    \E p \in Procs :
        /\ Done(p, "upsert_feedback")
        /\ proc[p].fault_at = ""
        /\ \E s \in steps :
              /\ s.id = proc[p].step_id
              /\ s.name = "on_message"
              /\ s.threadId # ""
              /\ s.parentId = NoId

\* --------------------------------- cosmos_db.py: the store called directly

\* Cap on the Turns of a conversation appended by direct calls
MaxTurns == 2

\* update_conversation(chat_id, message_id, user_message, ai_answer) called
\* on its own: the caller chooses the message_id
RecordTurn(p, chat_id, message_id, user_message, ai_answer) ==
    /\ proc[p].op = "idle"
    /\ Len(conv[chat_id].conversation) < MaxTurns
    /\ Begin(p, "update_conversation", "update_read",
             [chat |-> chat_id, msg_id |-> message_id,
              query |-> user_message, answer |-> ai_answer])
    /\ UNCHANGED <<conv, threads, steps, nextId, appended, lastSubmit, session, files>>

\* upload_data(chat_id) called on its own
CreateRecord(p, chat_id) ==
    /\ proc[p].op = "idle"
    /\ Begin(p, "upload_data", "upload_data", [chat |-> chat_id])
    /\ UNCHANGED <<conv, threads, steps, nextId, appended, lastSubmit, session, files>>

\* get_chat_history, upload_data and update_conversation, one call at a time
NextApi ==
    \E p \in Procs :
        \/ AllIdle /\ p = FreeTask /\ \E c \in ChatIds : GetContext(p, c)
        \/ AllIdle /\ p = FreeTask /\ \E c \in ChatIds : CreateRecord(p, c)
        \/ AllIdle /\ p = FreeTask /\
              \E c \in ChatIds, m \in 1..MaxIds, q \in Queries, a \in Answers :
                  RecordTurn(p, c, m, q, a)
        \/ get_data(p)
        \/ upload_data(p)
        \/ update_read(p)
        \/ update_replace(p)
        \/ Finish(p)

SpecApi == Init /\ [][NextApi]_vars

\* C14: no two Turns of a conversation record have the same message_id,
\* whatever calls produced the record.
C14_MessageIdUnique ==
    \A c \in ChatIds :
        \A i, j \in DOMAIN conv[c].conversation :
            i # j => conv[c].conversation[i].message_id # conv[c].conversation[j].message_id

\* C17: update_conversation on a conversation id without a record raises and
\* creates no record; on an existing record, when it returns, the record is
\* the record it found with exactly one Turn more, the new one, at the end;
\* when it raises the store is as it found it.
C17_AppendTurn ==
    \A p \in Procs :
        Done(p, "update_conversation") =>
            LET c == proc[p].chat
                before == proc[p].conv0[c]
                after == conv[c]
            IN
            /\ ~before.exists => (proc[p].outcome = "raised" /\ ~after.exists)
            /\ proc[p].outcome = "raised" => conv = proc[p].conv0
            /\ proc[p].outcome # "raised" =>
                  /\ proc[p].outcome = "recorded"
                  /\ before.exists /\ after.exists
                  /\ Len(after.conversation) = Len(before.conversation) + 1
                  /\ SubSeq(after.conversation, 1, Len(before.conversation)) = before.conversation
                  /\ after.conversation[Len(after.conversation)].message_id = proc[p].msg_id
                  /\ after.conversation[Len(after.conversation)].user_message = proc[p].query
                  /\ after.conversation[Len(after.conversation)].ai_answer = proc[p].answer
            /\ (before.exists /\ proc[p].fault_at = "") => proc[p].outcome = "recorded"

\* C17 witness: a Turn appended to a record that held one already
C17_Witness ==
    \E p \in Procs :
        /\ Done(p, "update_conversation")
        /\ proc[p].outcome = "recorded"
        /\ Len(proc[p].conv0[proc[p].chat].conversation) = 1
        /\ Len(conv[proc[p].chat].conversation) = 2
        /\ conv[proc[p].chat].conversation[1].message_id # proc[p].msg_id

\* ------------------------------------------------ feedback of a Turn

\* the conversation the handler found holds no Turn of its message id
UnknownMessage(p) ==
    /\ proc[p].chat # ""
    /\ proc[p].conv0[proc[p].chat].exists
    /\ \A i \in DOMAIN proc[p].conv0[proc[p].chat].conversation :
          proc[p].conv0[proc[p].chat].conversation[i].message_id # proc[p].msg_id

\* C18: the write of feedback to a conversation record (upsert_feedback of
\* the Conversation Store) and its reset (reset_feedback), on a record that
\* holds no Turn of the message id, never reach replace_item, leave the
\* record as it was, and end in the error of the failed scan.
C18_UnknownMessageFails ==
    \A p \in Procs :
        (proc[p].op \in {"upsert_feedback", "delete_feedback"} /\ UnknownMessage(p)) =>
            /\ conv = proc[p].conv0
            /\ proc[p].pc \notin {"mirror_replace", "reset_replace"}
            /\ (proc[p].pc = "done" /\ proc[p].outcome = "returned") =>
                  proc[p].mirror = "failed"

\* C18 witness: the record holds a Turn, but none of the message id, and no
\* store call failed
C18_Witness ==
    \E p \in Procs :
        /\ Done(p, "upsert_feedback")
        /\ UnknownMessage(p)
        /\ proc[p].conv0[proc[p].chat].conversation # <<>>
        /\ proc[p].fault_at = ""
        /\ proc[p].mirror = "failed"

\* the (feedback_vote, feedback_text) pair of a Turn
Pair(turn) == <<turn.feedback_vote, turn.feedback_text>>

\* C19: a Turn is created with (feedback_vote, feedback_text) = (0, "");
\* afterwards the pair changes only when a replace_item of upsert_feedback
\* succeeds, to that call's vote and text, or when a replace_item of
\* reset_feedback succeeds, to (0, ""); after each such replace the Turn of
\* the message id holds exactly that pair.
C19_FeedbackStateMachine ==
    [][\A c \in ChatIds :
          LET old == conv[c].conversation
              new == conv'[c].conversation
              voted(p) == <<IF proc[p].value = 0 THEN -1 ELSE proc[p].value,
                            IF proc[p].comment = NoComment THEN "" ELSE proc[p].comment>>
              sets(p) == /\ proc[p].pc = "mirror_replace"
                         /\ proc'[p].mirror = "ok"
                         /\ proc[p].chat = c
              resets(p) == /\ proc[p].pc = "reset_replace"
                           /\ proc'[p].mirror = "ok"
                           /\ proc[p].chat = c
          IN
          /\ \A i \in DOMAIN new :
                IF i \notin DOMAIN old
                THEN Pair(new[i]) = <<0, "">>
                ELSE \/ Pair(new[i]) = Pair(old[i])
                     \/ \E p \in Procs :
                           /\ sets(p)
                           /\ new[i].message_id = proc[p].msg_id
                           /\ Pair(new[i]) = voted(p)
                     \/ \E p \in Procs :
                           /\ resets(p)
                           /\ new[i].message_id = proc[p].msg_id
                           /\ Pair(new[i]) = <<0, "">>
          /\ \A p \in Procs :
                /\ sets(p) => FeedbackOf(new, proc[p].msg_id) = voted(p)
                /\ resets(p) => FeedbackOf(new, proc[p].msg_id) = <<0, "">>
      ]_vars

\* C19 witness: a vote with text, then a vote without text on the same Turn
C19_Witness ==
    \E p \in Procs :
        /\ Done(p, "upsert_feedback")
        /\ proc[p].mirror = "ok"
        /\ proc[p].comment = NoComment
        /\ FeedbackOf(proc[p].conv0[proc[p].chat].conversation, proc[p].msg_id) = <<-1, "bad">>

\* ------------------------------------------------ app.py: on_chat_end

\* on_chat_end: thread_id = cl.user_session.get("thread_id"); without one
\* nothing is deleted, with one delete_thread(thread_id) is called
on_chat_end(p) ==
    /\ proc[p].op = "idle"
    /\ IF session.thread_id = ""
       THEN Begin(p, "on_chat_end", "done", [outcome |-> "returned"])
       ELSE Begin(p, "on_chat_end", "delete_thread", [chat |-> session.thread_id])
    /\ UNCHANGED <<conv, threads, steps, nextId, appended, lastSubmit, session, files>>

\* delete_thread logs and re-raises every exception; on_chat_end logs it and
\* returns
ChatEndFailed(p, injected) ==
    Goto(p, "done", [outcome |-> "error", exc |-> TRUE,
                     fault_at |-> FaultAt(p, injected)])

\* Mutation of delete_thread: the conversation record of the id is deleted
\* with the thread
delete_thread_AlsoConversation(p) ==
    /\ proc[p].pc = "delete_thread"
    /\ LET t == proc[p].chat IN
       \/ /\ threads[t].exists
          /\ threads' = [threads EXCEPT ![t] = NoThread]
          /\ conv' = [conv EXCEPT ![t] = NoRecord]
          /\ Goto(p, "query_steps", NoLocals)
       \/ /\ ~threads[t].exists
          /\ ChatEndFailed(p, FALSE)
          /\ UNCHANGED <<threads, conv>>
       \/ /\ ChatEndFailed(p, TRUE)
          /\ UNCHANGED <<threads, conv>>
    /\ UNCHANGED <<steps, nextId, appended, lastSubmit, session, files>>

\* delete_thread: threads_container.delete_item(thread_id); the store raises
\* CosmosResourceNotFoundError when it holds no such thread
delete_thread(p) ==
    /\ proc[p].pc = "delete_thread"
    /\ LET t == proc[p].chat IN
       \/ /\ threads[t].exists
          /\ threads' = [threads EXCEPT ![t] = NoThread]
          /\ Goto(p, "query_steps", NoLocals)
       \/ /\ ~threads[t].exists
          /\ ChatEndFailed(p, FALSE)
          /\ UNCHANGED threads
       \/ /\ ChatEndFailed(p, TRUE)
          /\ UNCHANGED threads
    /\ UNCHANGED <<conv, steps, nextId, appended, lastSubmit, session, files>>

\* delete_thread: the query for the steps whose threadId is thread_id
query_steps(p) ==
    /\ proc[p].pc = "query_steps"
    /\ \/ Goto(p, "delete_steps",
               [todo |-> {s.id : s \in {x \in steps : x.threadId = proc[p].chat}}])
       \/ ChatEndFailed(p, TRUE)
    /\ UNCHANGED <<conv, threads, steps, nextId, appended, lastSubmit, session, files>>

\* delete_thread: the loop of steps_container.delete_item(step['id']); after
\* the last one delete_thread returns, and on_chat_end with it
delete_steps(p) ==
    /\ proc[p].pc = "delete_steps"
    /\ \/ /\ proc[p].todo = {}
          /\ Goto(p, "done", [outcome |-> "returned"])
          /\ UNCHANGED steps
       \/ \E id \in proc[p].todo :
             /\ \A other \in proc[p].todo : id <= other
             /\ \/ /\ StepsWithId(id) # {}
                   /\ steps' = steps \ StepsWithId(id)
                   /\ Goto(p, "delete_steps", [todo |-> proc[p].todo \ {id}])
                \/ /\ StepsWithId(id) = {}
                   /\ ChatEndFailed(p, FALSE)
                   /\ UNCHANGED steps
                \/ /\ ChatEndFailed(p, TRUE)
                   /\ UNCHANGED steps
    /\ UNCHANGED <<conv, threads, nextId, appended, lastSubmit, session, files>>

\* A session: text turns, feedback on them, and the end of the chat
NextSession ==
    \E p \in Procs :
        \/ AllIdle /\ p = FreeTask /\ \E c \in ChatIds, q \in Queries : UserMessage(p, c, q)
        \/ AllIdle /\ p = FreeTask /\ \E s \in 1..MaxIds, fb \in Feedbacks :
                         SubmitFeedback(p, s, fb.value, fb.comment)
        \/ AllIdle /\ p = FreeTask /\ on_chat_end(p)
        \/ create_step(p)
        \/ get_data(p)
        \/ upload_data(p)
        \/ call_databricks_endpoint(p)
        \/ update_read(p)
        \/ update_replace(p)
        \/ send(p)
        \/ get_step(p)
        \/ store_read(p)
        \/ store_upsert(p)
        \/ mirror_read(p)
        \/ mirror_replace(p)
        \/ delete_thread(p)
        \/ query_steps(p)
        \/ delete_steps(p)
        \/ Finish(p)

SpecSession == Init /\ [][NextSession]_vars

\* C20: when on_chat_end has run for a session with a thread id and no store
\* call failed, the store holds no thread record of that id and no step
\* whose threadId is that id, whether or not feedback was ever submitted.
C20_SessionEndDeletesThreadAndSteps ==
    \A p \in Procs :
        (/\ Done(p, "on_chat_end")
         /\ proc[p].chat # ""
         /\ proc[p].fault_at = "") =>
            /\ ~threads[proc[p].chat].exists
            /\ \A s \in steps : s.threadId # proc[p].chat

\* ------------------------------------------- handlers that run at once

\* store_feedback(message, value, comment) called on its own, with the
\* message's id and thread id
StoreFeedback(p, thread_id, message_id, value, comment) ==
    /\ proc[p].op = "idle"
    /\ Len(threads[thread_id].feedback) < MaxFeedback
    /\ Begin(p, "store_feedback", "store_read",
             [chat |-> thread_id, msg_id |-> message_id,
              value |-> value, comment |-> comment])
    /\ UNCHANGED <<conv, threads, steps, nextId, appended, lastSubmit, session, files>>

\* the message ids of the Turns recorded or being recorded
UsedIds ==
    UNION {{conv[c].conversation[i].message_id : i \in DOMAIN conv[c].conversation} :
              c \in ChatIds}
    \cup {proc[p].msg_id : p \in {x \in Procs : proc[x].op = "update_conversation"}}

\* The stores after one text turn of chat c1, question "q" and answer "a",
\* has been recorded and its handler has returned
AfterOneTurn ==
    /\ conv = [c \in ChatIds |->
                 IF c = "c1"
                 THEN [exists |-> TRUE, conversation |-> <<NewMessage(1, "q", "a")>>]
                 ELSE NoRecord]
    /\ threads = [t \in ChatIds |-> NoThread]
    /\ steps = {[id |-> 2, name |-> "on_message", threadId |-> "c1", parentId |-> 1]}
    /\ nextId = 3
    /\ proc = [p \in Procs |-> Idle]
    /\ appended = [c \in ChatIds |->
                     IF c = "c1"
                     THEN <<[role |-> "user", content |-> "q"],
                            [role |-> "assistant", content |-> "a"]>>
                     ELSE <<>>]
    /\ lastSubmit = NoId
    /\ session = [thread_id |-> "c1", audio_chunks |-> NoChunks]
    /\ files = {}

\* Calls of several server processes on one store, after the first turn:
\* each task makes one call, a Turn recorded under an id not yet used or a
\* feedback stored, and the store calls of the two interleave in every way
NextConc ==
    \E p \in Procs :
        \/ \E c \in ChatIds, m \in (nextId..MaxIds) \ UsedIds :
              RecordTurn(p, c, m, "q", "a")
        \/ \E t \in ChatIds, m \in 1..MaxIds, fb \in Feedbacks :
              StoreFeedback(p, t, m, fb.value, fb.comment)
        \/ update_read(p)
        \/ update_replace(p)
        \/ store_read(p)
        \/ store_upsert(p)
        \/ mirror_read(p)
        \/ mirror_replace(p)

SpecConc == AfterOneTurn /\ [][NextConc]_vars

\* the Turn at position i, without its feedback
TurnAt(conversation, i) ==
    <<conversation[i].message_id, conversation[i].user_message, conversation[i].ai_answer>>

\* C15: the turn sequence of a conversation record is append-only, also when
\* handlers on one conversation id interleave: a Turn that is in the record
\* is at the same position in the record after every step.
C15_AppendOnly ==
    [][\A c \in ChatIds :
          \A i \in DOMAIN conv[c].conversation :
              /\ i \in DOMAIN conv'[c].conversation
              /\ TurnAt(conv'[c].conversation, i) = TurnAt(conv[c].conversation, i)
      ]_vars

\* the Turn of message_id is in the conversation
HasTurn(conversation, message_id) ==
    \E i \in DOMAIN conversation : conversation[i].message_id = message_id

\* the vote and text a store_feedback writes to the Turn
Voted(p) ==
    <<IF proc[p].value = 0 THEN -1 ELSE proc[p].value,
      IF proc[p].comment = NoComment THEN "" ELSE proc[p].comment>>

\* two update_conversation calls returned, having read the same record
TwoAppends(p, q) ==
    /\ p # q
    /\ Done(p, "update_conversation") /\ proc[p].outcome = "recorded"
    /\ Done(q, "update_conversation") /\ proc[q].outcome = "recorded"
    /\ proc[p].chat = proc[q].chat
    /\ proc[p].item = proc[q].item

\* an update_conversation and a store_feedback returned, each having read
\* the record without the other's change
AppendAndVote(p, q) ==
    /\ Done(p, "update_conversation") /\ proc[p].outcome = "recorded"
    /\ Done(q, "store_feedback") /\ proc[q].mirror = "ok"
    /\ proc[p].chat = proc[q].chat
    /\ ~HasTurn(proc[q].item, proc[p].msg_id)
    /\ FeedbackOf(proc[p].item, proc[q].msg_id) # Voted(q)

\* two store_feedback calls wrote their thread, having read the same thread
TwoEntries(p, q) ==
    /\ p # q
    /\ proc[p].op = "store_feedback" /\ proc[q].op = "store_feedback"
    /\ proc[p].pc \in {"mirror_read", "mirror_replace", "done"}
    /\ proc[q].pc \in {"mirror_read", "mirror_replace", "done"}
    /\ proc[p].outcome # "raised" /\ proc[q].outcome # "raised"
    /\ proc[p].chat = proc[q].chat
    /\ proc[p].thread = proc[q].thread

\* C16: when two calls have read the same record before either wrote it and
\* both have written without an error, the record holds the change of one
\* of them only: of two appends one Turn, of an append and a feedback write
\* either the Turn or the vote, of two feedback entries of a thread one.
C16_LostUpdate ==
    \A p, q \in Procs :
        /\ TwoAppends(p, q) =>
              LET c == proc[p].chat IN
              /\ Len(conv[c].conversation) = Len(proc[p].item) + 1
              /\ HasTurn(conv[c].conversation, proc[p].msg_id)
                    # HasTurn(conv[c].conversation, proc[q].msg_id)
        /\ AppendAndVote(p, q) =>
              LET c == proc[p].chat IN
              IF HasTurn(conv[c].conversation, proc[p].msg_id)
              THEN FeedbackOf(conv[c].conversation, proc[q].msg_id) # Voted(q)
              ELSE conv[c].conversation = proc[q].item
        /\ TwoEntries(p, q) =>
              Len(threads[proc[p].chat].feedback) = Len(proc[p].thread) + 1

\* C16 witness: two appends read the record of one Turn, both returned
C16_Witness ==
    \E p, q \in Procs :
        /\ TwoAppends(p, q)
        /\ Len(proc[p].item) = 1
        /\ proc[p].fault_at = "" /\ proc[q].fault_at = ""

\* an append and a feedback write raced, both returned
C16_AppendAndVoteReached == \E p, q \in Procs : AppendAndVote(p, q)

\* two feedback writes of one thread raced, both returned
C16_TwoEntriesReached ==
    \E p, q \in Procs :
        TwoEntries(p, q) /\ Done(p, "store_feedback") /\ Done(q, "store_feedback")

\* C21: while on_chat_end and its delete_thread run, and when they have
\* returned, the Conversation Store is as the handler found it: the record
\* of the thread's id exists as before, with the same turn sequence.
C21_ChatEndKeepsConversation ==
    \A p \in Procs :
        proc[p].op = "on_chat_end" => conv = proc[p].conv0

\* C21 witness: the thread record was deleted and the conversation record
\* of that id holds a Turn
C21_Witness ==
    \E p \in Procs :
        /\ Done(p, "on_chat_end")
        /\ proc[p].outcome = "returned"
        /\ proc[p].chat # ""
        /\ proc[p].threads0[proc[p].chat].exists
        /\ ~threads[proc[p].chat].exists
        /\ conv[proc[p].chat].exists
        /\ conv[proc[p].chat].conversation # <<>>

C23_CreateOnExistingFails ==
    \A p \in Procs :
        /\ (Done(p, "upload_data") /\ proc[p].conv0[proc[p].chat].exists) =>
              /\ proc[p].outcome = "raised"
              /\ conv = proc[p].conv0
        /\ (/\ proc[p].op \in {"upload_data", "get_chat_history"}
            /\ proc[p].conv0[proc[p].chat].conversation # <<>>) =>
              conv = proc[p].conv0

\* C23 witness: upload_data was called for a record that holds a Turn, and
\* the refusal is the store's, not an injected failure
C23_Witness ==
    \E p \in Procs :
        /\ Done(p, "upload_data")
        /\ proc[p].conv0[proc[p].chat].conversation # <<>>
        /\ proc[p].fault_at = ""
        /\ proc[p].outcome = "raised"

\* get_chat_history took a failed read for a missing record and called
\* upload_data on a record that holds a Turn
C23_ContextOnFailedReadReached ==
    \E p \in Procs :
        /\ Done(p, "get_chat_history")
        /\ proc[p].fault_at = "get_data"
        /\ proc[p].outcome = "raised"
        /\ proc[p].conv0[proc[p].chat].conversation # <<>>

\* ------------------------------ feedback on records written by direct calls

\* Turns recorded by direct calls under message ids the caller chooses, also
\* one it has used before; feedback stored and retracted on them; one call
\* at a time
NextVotes ==
    \E p \in Procs :
        \/ AllIdle /\ p = FreeTask /\ \E c \in ChatIds : GetContext(p, c)
        \/ AllIdle /\ p = FreeTask /\ \E c \in ChatIds, m \in 1..MaxTurns :
              RecordTurn(p, c, m, "q", "a")
        \/ AllIdle /\ p = FreeTask /\
              \E t \in ChatIds, m \in 1..MaxTurns, fb \in Feedbacks :
                  StoreFeedback(p, t, m, fb.value, fb.comment)
        \/ AllIdle /\ p = FreeTask /\ \E m \in 1..MaxTurns : RetractFeedback(p, m)
        \/ get_data(p)
        \/ upload_data(p)
        \/ update_read(p)
        \/ update_replace(p)
        \/ store_read(p)
        \/ store_upsert(p)
        \/ mirror_read(p)
        \/ mirror_replace(p)
        \/ delete_query(p)
        \/ delete_upsert(p)
        \/ reset_read(p)
        \/ reset_replace(p)
        \/ Finish(p)

SpecVotes == Init /\ [][NextVotes]_vars

\* C24: a replace_item of upsert_feedback or of reset_feedback that succeeds
\* writes back the record with the same Turns in the same order; only the
\* first Turn of the message id may differ, and only in its feedback_vote
\* and feedback_text; the records of other ids are untouched.
C24_OnlyFeedbackFieldsChange ==
    [][\A p \in Procs :
          (/\ proc[p].pc \in {"mirror_replace", "reset_replace"}
           /\ proc'[p].mirror = "ok") =>
              LET c == proc[p].chat
                  old == conv[c].conversation
                  new == conv'[c].conversation
              IN
              /\ Len(new) = Len(old)
              /\ \A i \in DOMAIN old :
                    /\ TurnAt(new, i) = TurnAt(old, i)
                    /\ (\/ old[i].message_id # proc[p].msg_id
                        \/ \E j \in 1..(i-1) : old[j].message_id = proc[p].msg_id)
                          => new[i] = old[i]
              /\ \A other \in ChatIds \ {c} : conv'[other] = conv[other]
      ]_vars

\* C24 witness: the record holds two Turns of the message id, and the vote
\* was written to the first only
C24_Witness ==
    \E p \in Procs :
        /\ Done(p, "store_feedback")
        /\ proc[p].mirror = "ok"
        /\ LET conversation == conv[proc[p].chat].conversation IN
           /\ Len(conversation) = 2
           /\ conversation[1].message_id = proc[p].msg_id
           /\ conversation[2].message_id = proc[p].msg_id
           /\ Pair(conversation[1]) = Voted(p)
           /\ Pair(conversation[2]) = <<0, "">>

\* C25: in a user turn, text or voice, update_conversation is called, and
\* the turn sequence of the conversation differs from the one the handler
\* found, only when the endpoint has returned a response with an answer; a
\* turn whose model call raised or returned an empty or malformed response
\* ends with the turn sequence unchanged.
C25_TurnOnlyAfterAnswer ==
    \A p \in Procs :
        (proc[p].op \in Turns /\ ~proc[p].answered) =>
            /\ proc[p].pc \notin {"update_read", "update_replace"}
            /\ conv[proc[p].chat].conversation = proc[p].conv0[proc[p].chat].conversation

\* C25 witness: the model call of a second turn failed, with no store
\* failure, and the handler has returned
C25_Witness ==
    \E p \in Procs :
        /\ proc[p].op \in Turns
        /\ proc[p].pc = "done"
        /\ ~proc[p].answered
        /\ proc[p].outcome = "error"
        /\ proc[p].fault_at = ""
        /\ proc[p].query # ""
        /\ conv[proc[p].chat].conversation # <<>>

\* ------------------------------------ feedback on text and voice turns

\* Text and voice turns, and feedback on their steps, one handler at a time;
\* the text of the question and the vote play no part in the ids and are
\* "q" and a thumbs down with a comment
NextTurnsFeedback ==
    \/ AllIdle /\ on_audio_start
    \/ AllIdle /\ on_audio_chunk
    \/ \E p \in Procs :
        \/ AllIdle /\ p = FreeTask /\ \E c \in ChatIds : UserMessage(p, c, "q")
        \/ AllIdle /\ p = FreeTask /\ \E c \in ChatIds : on_audio_end(p, c)
        \/ AllIdle /\ p = FreeTask /\ \E s \in 1..MaxIds :
                         SubmitFeedback(p, s, 0, "bad")
        \/ create_step(p)
        \/ read_chunks(p)
        \/ write_wav(p)
        \/ speech_to_text(p)
        \/ send_transcription(p)
        \/ get_data(p)
        \/ upload_data(p)
        \/ call_databricks_endpoint(p)
        \/ update_read(p)
        \/ update_replace(p)
        \/ send(p)
        \/ send_answer(p)
        \/ cleanup(p)
        \/ apologize(p)
        \/ get_step(p)
        \/ store_read(p)
        \/ store_upsert(p)
        \/ mirror_read(p)
        \/ mirror_replace(p)
        \/ Finish(p)

SpecTurnsFeedback == Init /\ [][NextTurnsFeedback]_vars

\* the id find_user_message is specified to take from a step
IdOfStep(s) ==
    IF s.name = "on_audio_end" THEN s.id
    ELSE IF s.name = "on_message" THEN s.parentId
    ELSE NoId

C26_VoiceTurnRecorded ==
    \E p \in Procs :
        /\ proc[p].op = "on_audio_end"
        /\ proc[p].outcome = "recorded"
        /\ \E s \in steps : s.id = proc[p].msg_id

\* ------------------------------ feedback on recorded Turns, no store failure

\* the Turn the step of step_id resolves to is in the conversation of its
\* thread
StepOfRecordedTurn(step_id) ==
    \E s \in StepsWithId(step_id) :
        /\ Resolves(s)
        /\ HasTurn(conv[s.threadId].conversation, ResolvedId(s))

\* Text turns, and feedback submitted and retracted on the Turns they have
\* recorded, one handler at a time, no store call failing
NextRecorded ==
    /\ \E p \in Procs :
        \/ AllIdle /\ p = FreeTask /\ \E c \in ChatIds : UserMessage(p, c, "q")
        \/ AllIdle /\ p = FreeTask /\ \E s \in 1..MaxIds, fb \in Feedbacks :
              StepOfRecordedTurn(s) /\ SubmitFeedback(p, s, fb.value, fb.comment)
        \/ AllIdle /\ p = FreeTask /\ \E c \in ChatIds, m \in 1..MaxIds :
              HasTurn(conv[c].conversation, m) /\ RetractFeedback(p, m)
        \/ create_step(p)
        \/ get_data(p)
        \/ upload_data(p)
        \/ call_databricks_endpoint(p)
        \/ update_read(p)
        \/ update_replace(p)
        \/ send(p)
        \/ get_step(p)
        \/ store_read(p)
        \/ store_upsert(p)
        \/ mirror_read(p)
        \/ mirror_replace(p)
        \/ delete_query(p)
        \/ delete_upsert(p)
        \/ reset_read(p)
        \/ reset_replace(p)
        \/ Finish(p)
    /\ \A p \in Procs : proc'[p].fault_at = ""

SpecRecorded == Init /\ [][NextRecorded]_vars

\* the thread of t holds an entry of message id m
HasEntry(t, m) ==
    /\ threads[t].exists
    /\ \E i \in DOMAIN threads[t].feedback : threads[t].feedback[i].message_id = m

\* C27: between handlers, for every recorded Turn m of a conversation, the
\* thread of the same id holds an entry of m exactly when the Turn's
\* feedback_vote is not 0, and an entry of the thread is an entry of a
\* recorded Turn.
C27_StoresAgree ==
    AllIdle =>
        \A c \in ChatIds :
            /\ \A i \in DOMAIN conv[c].conversation :
                  HasEntry(c, conv[c].conversation[i].message_id)
                     = (conv[c].conversation[i].feedback_vote # 0)
            /\ \A j \in DOMAIN threads[c].feedback :
                  HasTurn(conv[c].conversation, threads[c].feedback[j].message_id)

\* C27 witness: a Turn keeps its vote and its entry after a retract has
\* run for the other Turn of the conversation
C27_Witness ==
    /\ AllIdle
    /\ lastSubmit = NoId
    /\ \E c \in ChatIds :
          /\ Len(conv[c].conversation) = 2
          /\ conv[c].conversation[1].feedback_vote = 0
          /\ conv[c].conversation[2].feedback_vote # 0
          /\ Len(threads[c].feedback) = 1

C28_OtherEntryKeptReached ==
    \E p \in Procs :
        /\ Done(p, "delete_feedback")
        /\ proc[p].outcome = "returned"
        /\ proc[p].found
        /\ Len(proc[p].threads0[proc[p].chat].feedback) = 2
        /\ Len(threads[proc[p].chat].feedback) = 1

\* the texts recognize_from_file returns when recognition failed
RecognizerErrors == {"No speech could be recognized.", "Error: Network error"}

\* C29: on the voice path a failed recognition is never taken for the
\* user's words: process_audio does not go on to get_response with the
\* recogniser's error text as the query, sends no such text as the user's
\* message, and no Turn is recorded with it.
C29_RecognizerErrorNotForwarded ==
    /\ \A p \in Procs :
          proc[p].op = "on_audio_end" =>
              /\ proc[p].query \notin RecognizerErrors
              /\ proc[p].sent \cap RecognizerErrors = {}
    /\ \A c \in ChatIds :
          \A i \in DOMAIN conv[c].conversation :
              conv[c].conversation[i].user_message \notin RecognizerErrors

\* C30: when on_audio_end has returned and the removal of the file did not
\* fail, the temporary file of that turn does not exist, whatever happened
\* in between; and a turn that finds no recorded chunks ends, with or
\* without its message sent, without a file written and without a model
\* call.
C30_TemporaryFileRemoved ==
    [][\A p \in Procs :
          /\ (/\ proc'[p].op = "on_audio_end"
              /\ proc'[p].pc = "done"
              /\ proc'[p].fault_at # "cleanup") =>
                 (proc'[p].msg_id + 1) \notin files'
          /\ (/\ proc[p].pc = "read_chunks"
              /\ session.audio_chunks \in {NoChunks, 0}) =>
                 /\ proc'[p].pc \in {"done", "apologize"}
                 /\ files' = files
                 /\ ~proc'[p].answered
                 /\ conv' = conv
          /\ proc[p].pc = "apologize" =>
                 /\ proc'[p].pc = "done"
                 /\ files' = files
                 /\ conv' = conv
      ]_vars

\* C30 witness: the file was written and transcribed, the model call
\* failed, and the file is gone when the handler has returned
C30_Witness ==
    \E p \in Procs :
        /\ Done(p, "on_audio_end")
        /\ proc[p].query # ""
        /\ proc[p].outcome = "error"
        /\ ~proc[p].answered
        /\ proc[p].fault_at = ""
        /\ AudioFile(p) \notin files

\* a turn without recorded chunks has returned with the "No audio" message
C30_NoAudioReached ==
    \E p \in Procs :
        /\ Done(p, "on_audio_end")
        /\ proc[p].outcome = "no_audio"
        /\ files = {}
====
